---- MODULE Spec2Model ----
(***************************************************************************)
(* Model of the archive pipeline (main.py), the OCR orchestrator (ocr.py), *)
(* the record store (models.py) and the housekeeping script (initiaze.py). *)
(*                                                                         *)
(* A string is a sequence of tokens.  The characters the code looks at     *)
(* ("/", "_", ".", " ", "\n", "-") are tokens of their own; every other    *)
(* token is a run of characters that contains none of them.                *)
(***************************************************************************)
EXTENDS Integers, Sequences, FiniteSets, TLC

VARIABLES
    uploaded,    \* UPLOAD_DIR: zip filename -> content id (0: no such file)
    processed,   \* PROCESSED_DIR: zip filename -> content id (0: no such file)
    errored,     \* PROCESSING_ERROR_DIR: zip filename -> content id (0: no such file)
    images,      \* IMAGE_DIR: set of <<filename, bytes>>
    pdfs,        \* PDF_DIR: set of <<filename, bytes>>
    db,          \* the committed rows of zip_processing.db, one sequence per table
    session,     \* the open Session: objects added and not yet committed
    pc,          \* which script runs: "idle", "main" (main.py) or "ocr" (ocr.py)
    zip_files,   \* main(): the archives of the glob still to be processed
    all_pdfs,    \* process_pdf_files(): the document records still to be processed
    doc,         \* process_pdf_files(): the open document and the next page
    log,         \* console output of process_zip_file in the current main.py run
    ocr_log,     \* console output of process_pdf_files for the last document
    ops          \* number of operator commands issued so far

vars == <<uploaded, processed, errored, images, pdfs, db, session, pc,
          zip_files, all_pdfs, doc, log, ocr_log, ops>>

\* A bound of the model: how many commands (drop a file, start a script) the
\* operator issues.
MaxOps == 4

-----------------------------------------------------------------------------
(* str and pathlib *)

\* The element of a one-element set.  Only({e(x) : x \in {v}}) is e of the
\* value of v, v computed once: an assignment to a local variable.
Only(S) == CHOOSE x \in S : TRUE

RECURSIVE Join(_, _)
\* sep.join(parts)
Join(parts, sep) ==
    IF parts = <<>> THEN <<>>
    ELSE IF Len(parts) = 1 THEN parts[1]
    ELSE parts[1] \o <<sep>> \o Join(Tail(parts), sep)

RECURSIVE Split(_, _)
\* s.split(sep): one part more than there are separators
Split(s, sep) ==
    IF \A i \in 1..Len(s) : s[i] # sep THEN <<s>>
    ELSE LET i == CHOOSE k \in 1..Len(s) :
                      s[k] = sep /\ \A j \in 1..(k - 1) : s[j] # sep
         IN  <<SubSeq(s, 1, i - 1)>> \o Split(SubSeq(s, i + 1, Len(s)), sep)

\* s.replace(old, new), for single characters
Replace(s, old, new) == [i \in 1..Len(s) |-> IF s[i] = old THEN new ELSE s[i]]

\* s.startswith(p)
StartsWith(s, p) == Len(p) <= Len(s) /\ SubSeq(s, 1, Len(p)) = p

\* str.lower() of one token
LowerTok(t) ==
    CASE t = "JPG" -> "jpg"
      [] t = "PDF" -> "pdf"
      [] t = "RESULT DR:" -> "result dr:"
      [] t = "Result DR:" -> "result dr:"
      [] t = "SCREENING RESULT" -> "screening result"
      [] t = "Screening Result" -> "screening result"
      [] t = "VCDR" -> "vcdr"
      [] t = "Left Eye" -> "left eye"
      [] t = "Right Eye" -> "right eye"
      [] t = "No Referable Glaucoma" -> "no referable glaucoma"
      [] t = "Referable Glaucoma" -> "referable glaucoma"
      [] t = "Referable Glacuoma" -> "referable glacuoma"
      [] OTHER -> t

\* s.lower()
Lower(s) == [i \in 1..Len(s) |-> LowerTok(s[i])]

\* Path(p).parts: the segments between the separators, empty ones dropped
PathParts(p) == SelectSeq(Split(p, "/"), LAMBDA seg : seg # <<>>)

\* str(Path)
PathStr(parts) == IF parts = <<>> THEN <<".">> ELSE Join(parts, "/")

\* Path.parent
PathParent(parts) == SubSeq(parts, 1, Len(parts) - 1)

\* Path.name
PathName(parts) == IF parts = <<>> THEN <<>> ELSE parts[Len(parts)]

\* Path.suffix: from the last dot of the name, unless that dot starts or ends it
PathSuffix(parts) ==
    LET name == PathName(parts)
        dots == {i \in 1..Len(name) : name[i] = "."}
    IN  IF dots = {} THEN <<>>
        ELSE LET i == CHOOSE k \in dots : \A j \in dots : j <= k
             IN  IF 1 < i /\ i < Len(name) THEN SubSeq(name, i, Len(name)) ELSE <<>>

-----------------------------------------------------------------------------
(* The inputs: archive contents and the documents inside them *)

ZipNames == {"a.zip", "b.zip"}

\* An archive member: its name in the archive, its bytes, and whether the bytes
\* pass the archive's checksum.  A directory entry is a name ending in "/".
File(filename, data) == [filename |-> filename, data |-> data, crc_ok |-> TRUE]
Dir(filename) == [filename |-> filename, data |-> 0, crc_ok |-> TRUE]
Damaged(filename, data) == [filename |-> filename, data |-> data, crc_ok |-> FALSE]

JaneDir == <<"Jane", " ", "Doe", "_", "12345", "_", "20240101">>

\* Archive contents by content id: readable (open(filepath, "rb") succeeds: it
\* does not for a directory named *.zip, a dangling link or a file the user
\* may not read), is_zip (the bytes are an archive) and the members in archive
\* order.
Archives == <<
    \* 1: the naming convention, a directory entry, images, documents, a text file
    [readable |-> TRUE, is_zip |-> TRUE, members |-> <<
        Dir(JaneDir \o <<"/">>),
        File(JaneDir \o <<"/", "scan", ".", "jpg">>, 1),
        File(JaneDir \o <<"/", "report", ".", "PDF">>, 11),
        File(JaneDir \o <<"/", "notes", ".", "txt">>, 2),
        File(JaneDir \o <<"/", "second", ".", "pdf">>, 12) >>],
    \* 2: no directory follows the convention
    [readable |-> TRUE, is_zip |-> TRUE, members |-> <<
        File(<<"photos", "/", "a", ".", "jpg">>, 3),
        File(<<"b", ".", "pdf">>, 11) >>],
    \* 3: two directories of two parts each, one inside the other
    [readable |-> TRUE, is_zip |-> TRUE, members |-> <<
        File(<<"a", "_", "b", "/", "c", "_", "d", "/", "x", ".", "jpg">>, 4) >>],
    \* 4: not an archive
    [readable |-> TRUE, is_zip |-> FALSE, members |-> <<>>],
    \* 5: a document that cannot be opened, and one with an unreadable value
    [readable |-> TRUE, is_zip |-> TRUE, members |-> <<
        File(<<"Bob", "_", "7", "_", "2024", "/", "x", ".", "png">>, 5),
        File(<<"Bob", "_", "7", "_", "2024", "/", "broken", ".", "pdf">>, 13),
        File(<<"Bob", "_", "7", "_", "2024", "/", "eye", ".", "pdf">>, 14) >>],
    \* 6: a member whose data fails its checksum
    [readable |-> TRUE, is_zip |-> TRUE, members |-> <<
        File(<<"Al", "_", "9", "_", "2025", "/", "ok", ".", "bmp">>, 6),
        Damaged(<<"Al", "_", "9", "_", "2025", "/", "bad", ".", "jpeg">>, 7) >>],
    \* 7: a file that cannot be opened for reading
    [readable |-> FALSE, is_zip |-> FALSE, members |-> <<>>],
    \* 8: two directories that follow the convention, at different depths
    [readable |-> TRUE, is_zip |-> TRUE, members |-> <<
        File(<<"x", "/", "A", "_", "1", "_", "2020", "/", "f", ".", "jpg">>, 8),
        File(<<"B", "_", "2", "_", "2021", "/", "g", ".", "jpg">>, 9) >>],
    \* 9: a directory whose name begins with the name of the one beside it
    [readable |-> TRUE, is_zip |-> TRUE, members |-> <<
        File(<<"Cy", "_", "3", "_", "2023", "/", "a", ".", "jpg">>, 21),
        File(<<"Cy", "_", "3", "_", "2023", "x", "/", "b", ".", "jpg">>, 22) >>],
    \* 10: the same file name in two subdirectories, and a document with a
    \* title alone
    [readable |-> TRUE, is_zip |-> TRUE, members |-> <<
        File(<<"Di", "_", "4", "_", "2022", "/", "l", "/", "e", ".", "jpg">>, 23),
        File(<<"Di", "_", "4", "_", "2022", "/", "r", "/", "e", ".", "jpg">>, 24),
        File(<<"Di", "_", "4", "_", "2022", "/", "bare", ".", "pdf">>, 15) >>]
 >>

Contents == 1..Len(Archives)

\* calculate_md5: the digest of an archive's bytes; distinct contents of the
\* catalogue have distinct digests.
Md5Hex == <<"9e107d9d", "e4d909c2", "7c6a180b", "6cb75f65", "819b0643", "34cc93ec",
            "d41d8cd9", "45c48cce", "6512bd43", "c20ad4d7">>
calculate_md5(c) == Md5Hex[c]

\* open(filepath, "rb") in calculate_md5 raises OSError
OpenRaises(c) == ~Archives[c].readable

-----------------------------------------------------------------------------
(* models.py: the tables, and the Session's unit of work *)

EmptyDb == [zip_files |-> <<>>, patient_encounters |-> <<>>, encounter_files |-> <<>>,
            diabetic_retinopathy_reports |-> <<>>, glaucoma_reports |-> <<>>]

EmptySession == [new |-> <<>>]

\* Mutant of ZipUnique: the filename column is not unique
ZipUniqueFingerprintOnly(d, o) ==
    \A i \in 1..Len(d.zip_files) : d.zip_files[i].md5_hash # o.md5_hash

\* The unique constraints of zip_files
ZipUnique(d, o) ==
    \A i \in 1..Len(d.zip_files) :
        /\ d.zip_files[i].zip_filename # o.zip_filename
        /\ d.zip_files[i].md5_hash # o.md5_hash

\* Mutant of InsertZip: the File Records are not cascaded to
InsertZipNoCascade(d, o) ==
    LET zid == Len(d.zip_files) + 1
        eid == Len(d.patient_encounters) + 1
        pe == o.patient_encounter
    IN  [d EXCEPT
            !.zip_files = Append(@, [id |-> zid, zip_filename |-> o.zip_filename,
                                     md5_hash |-> o.md5_hash]),
            !.patient_encounters = Append(@, [id |-> eid, zip_file_id |-> zid,
                                     name |-> pe.name, patient_id |-> pe.patient_id,
                                     capture_date |-> pe.capture_date])]

\* INSERT of a ZipFile with its PatientEncounters and EncounterFile rows (cascade)
InsertZip(d, o) ==
    LET zid == Len(d.zip_files) + 1
        eid == Len(d.patient_encounters) + 1
        nf == Len(d.encounter_files)
        pe == o.patient_encounter
        files == pe.encounter_files
    IN  [d EXCEPT
            !.zip_files = Append(@, [id |-> zid, zip_filename |-> o.zip_filename,
                                     md5_hash |-> o.md5_hash]),
            !.patient_encounters = Append(@, [id |-> eid, zip_file_id |-> zid,
                                     name |-> pe.name, patient_id |-> pe.patient_id,
                                     capture_date |-> pe.capture_date]),
            !.encounter_files = @ \o [i \in 1..Len(files) |->
                                    [id |-> nf + i, patient_encounter_id |-> eid,
                                     filename |-> files[i].filename,
                                     file_type |-> files[i].file_type,
                                     ocr_processed |-> FALSE]]]

\* INSERT of a DiabeticRetinopathyReport
InsertDr(d, o) ==
    [d EXCEPT !.diabetic_retinopathy_reports =
        Append(@, [id |-> Len(@) + 1, patient_encounter_id |-> o.patient_encounter_id,
                   result |-> o.result])]

\* INSERT of a GlaucomaReport
InsertGlaucoma(d, o) ==
    [d EXCEPT !.glaucoma_reports =
        Append(@, [id |-> Len(@) + 1, patient_encounter_id |-> o.patient_encounter_id,
                   vcdr_right |-> o.vcdr_right, vcdr_left |-> o.vcdr_left,
                   result |-> o.result])]

RECURSIVE Flush(_, _)
\* session.flush(): insert the pending objects in the order they were added;
\* ok is FALSE when a unique constraint rejects one (IntegrityError)
Flush(d, new) ==
    IF new = <<>> THEN [ok |-> TRUE, db |-> d]
    ELSE LET o == Head(new)
             inserted == IF o.table = "zip_files" THEN InsertZip(d, o)
                         ELSE IF o.table = "diabetic_retinopathy_reports" THEN InsertDr(d, o)
                         ELSE InsertGlaucoma(d, o)
         IN  IF o.table = "zip_files" /\ ~ZipUnique(d, o)
             THEN [ok |-> FALSE, db |-> d]
             ELSE Only({Flush(d2, Tail(new)) : d2 \in {inserted}})

\* Mutant of QueryView: a query reads the stored rows alone
QueryViewStoredOnly(d, s) == d

\* What session.query(...) reads: the session flushes its pending objects
\* into the open transaction first (autoflush), so a query sees them.
QueryView(d, s) == Flush(d, s.new).db

\* session.add(obj)
session_add(s, o) == [s EXCEPT !.new = Append(@, o)]

\* session.commit(): flush and commit; on IntegrityError nothing is stored
\* and the pending objects stay in the session until rollback
session_commit(d, s) ==
    Only({IF r.ok THEN [raised |-> FALSE, db |-> r.db, session |-> EmptySession]
          ELSE [raised |-> TRUE, db |-> d, session |-> s] : r \in {Flush(d, s.new)}})

\* session.rollback(): the open transaction is undone and the objects added
\* in it are expunged
session_rollback(s) == EmptySession

-----------------------------------------------------------------------------
(* main.py: process_zip_file *)

\* ZipInfo.is_dir(): the member's name ends in the separator
is_dir(member_info) ==
    member_info.filename # <<>> /\ member_info.filename[Len(member_info.filename)] = "/"

\* all_dirs = {Path(p).parent for p in zf.namelist()}
all_dirs(members) == {PathParent(PathParts(members[i].filename)) : i \in 1..Len(members)}

\* The orders in which a set can be enumerated
Orders(S) ==
    {f \in [1..Cardinality(S) -> S] : \A i, j \in 1..Cardinality(S) : f[i] = f[j] => i = j}

RECURSIVE FirstPrefix(_, _)
\* for i in range(len(current_path.parts)): the first prefix of the path that,
\* joined to one string, splits on "_" into at least 3 parts (<<>>: none does)
FirstPrefix(parts, i) ==
    IF i > Len(parts) THEN <<>>
    ELSE LET test_path_str == Join(SubSeq(parts, 1, i), "/")
             dir_parts == Split(test_path_str, "_")
         IN  IF Len(dir_parts) >= 3 THEN PathParts(test_path_str)
             ELSE FirstPrefix(parts, i + 1)

RECURSIVE FindDir(_)
\* for d in all_dirs, in the order the set is enumerated (<<>>: dir_in_zip is None)
FindDir(order) ==
    IF order = <<>> THEN <<>>
    ELSE LET dir_in_zip == FirstPrefix(Head(order), 1)
         IN  IF dir_in_zip # <<>> THEN dir_in_zip ELSE FindDir(Tail(order))

\* The directory name taken apart
ParseDir(dir_in_zip) ==
    LET dir_parts == Split(PathName(dir_in_zip), "_")
        n == Len(dir_parts)
    IN  [capture_date |-> dir_parts[n],
         patient_id |-> dir_parts[n - 1],
         name |-> Join(SubSeq(dir_parts, 1, n - 2), " ")]

\* Mutant of NewFilename: the spaces of the name are kept
NewFilenameKeepsSpaces(patient_id, name, capture_date, original_filepath) ==
    patient_id \o <<"_">> \o name \o <<"_">> \o capture_date
        \o <<"_">> \o Replace(PathName(original_filepath), "/", "_")

\* The name a member is stored under
NewFilename(patient_id, name, capture_date, original_filepath) ==
    patient_id \o <<"_">> \o Replace(name, " ", "_") \o <<"_">> \o capture_date
        \o <<"_">> \o Replace(PathName(original_filepath), "/", "_")

\* Mutant of Classify: a member of any other extension is taken as an image
ClassifyRestAsImage(file_ext) ==
    IF file_ext = <<".", "pdf">> THEN "pdf" ELSE "image"

\* The destination of a member by its lowercased extension ("skip": none)
Classify(file_ext) ==
    IF file_ext \in {<<".", "jpg">>, <<".", "jpeg">>, <<".", "png">>,
                     <<".", "gif">>, <<".", "bmp">>} THEN "image"
    ELSE IF file_ext = <<".", "pdf">> THEN "pdf"
    ELSE "skip"

\* Is a member of the archive picked up by the extraction loop?
Selected(member_info, dir_in_zip) ==
    /\ ~is_dir(member_info)
    /\ StartsWith(PathStr(PathParts(member_info.filename)), PathStr(dir_in_zip))

RECURSIVE ExtractMembers(_, _, _, _, _)
\* for member_info in zf.infolist(): st holds the files written in the order
\* they were written, the File Records built so far, the lines printed, and
\* whether a read raised.  A member whose bytes fail the checksum raises in
\* source.read(), after open(target_path, "wb") has already emptied the
\* target (bytes 0).
ExtractMembers(members, i, dir_in_zip, enc, st) ==
    IF i > Len(members) \/ st.raised THEN st
    ELSE LET member_info == members[i]
             original_filepath == PathParts(member_info.filename)
             file_ext == Lower(PathSuffix(original_filepath))
             new_filename == NewFilename(enc.patient_id, enc.name, enc.capture_date,
                                         original_filepath)
             file_type == Classify(file_ext)
         IN  IF ~Selected(member_info, dir_in_zip) \/ file_type = "skip"
             THEN ExtractMembers(members, i + 1, dir_in_zip, enc, st)
             ELSE IF ~member_info.crc_ok
             THEN [st EXCEPT !.written = Append(@, [file_type |-> file_type,
                                                    filename |-> new_filename, bytes |-> 0]),
                             !.raised = TRUE]
             ELSE Only({ExtractMembers(members, i + 1, dir_in_zip, enc, st2) : st2 \in {
                      [st EXCEPT
                         !.written = Append(@, [file_type |-> file_type,
                                                filename |-> new_filename,
                                                bytes |-> member_info.data]),
                         !.files_to_add = Append(@, [filename |-> new_filename,
                                                     file_type |-> file_type]),
                         !.extracted = Append(@, [member |-> i,
                                                  new_filename |-> new_filename,
                                                  file_type |-> file_type])]}})

NoEncounter == [capture_date |-> <<>>, patient_id |-> <<>>, name |-> <<>>]

\* Nothing extracted yet
NoneExtracted == [written |-> <<>>, files_to_add |-> <<>>, extracted |-> <<>>,
                  raised |-> FALSE]

\* Lines 100-123 of process_zip_file: the extraction loop for the directory
\* found, and the exception it raised ("": none)
UnpackDir(zf, dir_in_zip, enc) ==
    Only({[error |-> IF st.raised THEN "BadZipFile" ELSE "",
           dir_in_zip |-> dir_in_zip, enc |-> enc, st |-> st] :
          st \in {ExtractMembers(zf.members, 1, dir_in_zip, enc, NoneExtracted)}})

\* Lines 64-123 of process_zip_file, which read the archive alone: the
\* exception raised ("": none), the directory found and its parts, and what
\* the extraction loop did
Unpack(c, order) ==
    IF ~Archives[c].is_zip
    THEN [error |-> "BadZipFile", dir_in_zip |-> <<>>, enc |-> NoEncounter,
          st |-> NoneExtracted]
    ELSE Only({IF dir_in_zip = <<>>
               THEN [error |-> "ValueError", dir_in_zip |-> <<>>, enc |-> NoEncounter,
                     st |-> NoneExtracted]
               ELSE Only({UnpackDir(Archives[c], dir_in_zip, enc) :
                          enc \in {ParseDir(dir_in_zip)}}) :
               dir_in_zip \in {FindDir(order)}})

\* Unpack for every archive content and every order of its directories
Unpacked ==
    [c \in Contents |->
        [order \in Orders(all_dirs(Archives[c].members)) |-> Unpack(c, order)] @@ <<>>] @@ <<>>

\* open(target_path, "wb") and write, for the files written to one
\* extraction area: a file of the same name is replaced, the last write stays
WriteFiles(area, file_type, written) ==
    LET mine == {i \in 1..Len(written) : written[i].file_type = file_type}
        last == {i \in mine : \A j \in mine : j > i => written[j].filename # written[i].filename}
    IN  {f \in area : \A i \in mine : written[i].filename # f[1]}
            \cup {<<written[i].filename, written[i].bytes>> : i \in last}

\* The try block of process_zip_file for an archive that is not skipped:
\* what it leaves behind, with error the exception it raised ("": none)
TryProcess(zip_name, c, md5_hash, order, d, s, imgs, docs) ==
    LET new_zip_file(u) ==
            [table |-> "zip_files", zip_filename |-> zip_name, md5_hash |-> md5_hash,
             patient_encounter |->
                 [name |-> u.enc.name, patient_id |-> u.enc.patient_id,
                  capture_date |-> u.enc.capture_date,
                  encounter_files |-> u.st.files_to_add]]
        commit(u) == IF u.error = "" THEN session_commit(d, session_add(s, new_zip_file(u)))
                     ELSE [raised |-> FALSE, db |-> d, session |-> s]
        result(u, done) ==
            [error |-> IF done.raised THEN "IntegrityError" ELSE u.error,
             db |-> done.db, session |-> done.session,
             images |-> WriteFiles(imgs, "image", u.st.written),
             pdfs |-> WriteFiles(docs, "pdf", u.st.written),
             extracted |-> u.st.extracted, dir_in_zip |-> u.dir_in_zip, enc |-> u.enc]
    IN  Only({Only({result(u, done) : done \in {commit(u)}}) : u \in {Unpacked[c][order]}})

\* Mutant of AlreadyProcessed: no archive is taken as processed before
AlreadyProcessedNever(d, s, md5_hash) == FALSE

\* Mutant of AlreadyProcessed: the query filters on the filename column
AlreadyProcessedWrongColumn(d, s, md5_hash) ==
    LET seen == QueryView(d, s).zip_files
    IN  \E i \in 1..Len(seen) : seen[i].zip_filename = md5_hash

\* session.query(ZipFile).filter_by(md5_hash=md5_hash).first()
AlreadyProcessed(d, s, md5_hash) ==
    LET seen == QueryView(d, s).zip_files
    IN  \E i \in 1..Len(seen) : seen[i].md5_hash = md5_hash

\* shutil.move(zip_path, area / zip_path.name)
MoveZip(zip_name, area) ==
    /\ area' = [area EXCEPT ![zip_name] = uploaded[zip_name]]
    /\ uploaded' = [uploaded EXCEPT ![zip_name] = 0]

\* process_zip_file(zip_path, session), the directories of the archive
\* enumerated in the given order.  calculate_md5 is called before the try
\* statement: when it raises, nothing has been done and the exception leaves
\* process_zip_file.
process_zip_file(zip_name, order) ==
    LET c == uploaded[zip_name]
        md5_hash == calculate_md5(c)
        line(outcome, r) ==
            [zip |-> zip_name, content |-> c, outcome |-> outcome, error |-> r.error,
             dir_in_zip |-> r.dir_in_zip, name |-> r.enc.name,
             patient_id |-> r.enc.patient_id, capture_date |-> r.enc.capture_date,
             extracted |-> r.extracted]
    IN  IF OpenRaises(c)
        THEN UNCHANGED <<uploaded, processed, errored, images, pdfs, db, session, log>>
        ELSE IF AlreadyProcessed(db, session, md5_hash)
        THEN /\ log' = Append(log, line("skipped",
                          [error |-> "", dir_in_zip |-> <<>>, enc |-> NoEncounter,
                           extracted |-> <<>>]))
             /\ UNCHANGED <<uploaded, processed, errored, images, pdfs, db, session>>
        ELSE \E r \in {TryProcess(zip_name, c, md5_hash, order, db, session, images, pdfs)} :
                 /\ images' = r.images
                 /\ pdfs' = r.pdfs
                 /\ db' = r.db
                 /\ IF r.error = ""
                    THEN /\ session' = r.session
                         /\ MoveZip(zip_name, processed)
                         /\ log' = Append(log, line("processed", r))
                         /\ UNCHANGED errored
                    ELSE /\ session' = session_rollback(r.session)
                         /\ MoveZip(zip_name, errored)
                         /\ log' = Append(log, line("error", r))
                         /\ UNCHANGED processed

-----------------------------------------------------------------------------
(* main.py: main, and the operator *)

\* A file is dropped into the uploaded-input area
Upload(zip_name, c) ==
    /\ pc = "idle"
    /\ ops < MaxOps
    /\ ops' = ops + 1
    /\ uploaded' = [uploaded EXCEPT ![zip_name] = c]
    /\ UNCHANGED <<processed, errored, images, pdfs, db, session, pc, zip_files,
                   all_pdfs, doc, log, ocr_log>>

\* main(): the session is opened and the uploaded-input area is listed
StartMain ==
    /\ pc = "idle"
    /\ ops < MaxOps
    /\ ops' = ops + 1
    /\ pc' = "main"
    /\ session' = EmptySession
    /\ \E order \in Orders({z \in ZipNames : uploaded[z] # 0}) : zip_files' = order
    /\ log' = <<>>
    /\ UNCHANGED <<uploaded, processed, errored, images, pdfs, db, all_pdfs, doc, ocr_log>>

\* main(): one turn of the loop over zip_files.  No handler in main catches
\* what process_zip_file raises: the exception ends the program, the rest of
\* the list unvisited.
ProcessNext ==
    /\ pc = "main"
    /\ zip_files # <<>>
    /\ \E order \in Orders(all_dirs(Archives[uploaded[Head(zip_files)]].members)) :
           process_zip_file(Head(zip_files), order)
    /\ IF OpenRaises(uploaded[Head(zip_files)])
       THEN pc' = "idle" /\ zip_files' = <<>>
       ELSE pc' = pc /\ zip_files' = Tail(zip_files)
    /\ UNCHANGED <<all_pdfs, doc, ocr_log, ops>>

\* main(): session.close() after the loop
FinishMain ==
    /\ pc = "main"
    /\ zip_files = <<>>
    /\ pc' = "idle"
    /\ session' = EmptySession
    /\ UNCHANGED <<uploaded, processed, errored, images, pdfs, db, zip_files,
                   all_pdfs, doc, log, ocr_log, ops>>

\* initiaze.py: the processed archives go back to the uploaded-input area and
\* the database file is deleted and created anew
Reinitialize ==
    /\ pc = "idle"
    /\ ops < MaxOps
    /\ ops' = ops + 1
    /\ uploaded' = [z \in ZipNames |-> IF processed[z] # 0 THEN processed[z] ELSE uploaded[z]]
    /\ processed' = [z \in ZipNames |-> 0]
    /\ db' = EmptyDb
    /\ UNCHANGED <<errored, images, pdfs, session, pc, zip_files, all_pdfs, doc,
                   log, ocr_log>>

\* process_pdf_files: no document is open
NoDoc == [open |-> FALSE]

-----------------------------------------------------------------------------
(* ocr.py: the documents, and the two rule sets *)

DrTitle == "Diabetic Retinopathy Report"
GlaucomaTitle == "Glaucoma Screening Report"

\* Recognized text of pages
PageDrModerate == <<DrTitle, "\n", "Result DR:", "\n", "Moderate NPDR", "\n", "Other text">>
PageDrSevere == <<DrTitle, "\n", "RESULT DR:", " ", "Severe NPDR">>
PageGlaucomaBoth ==
    <<GlaucomaTitle, "\n", "SCREENING RESULT", "\n",
      "Right Eye", " ", "VCDR", " ", "-", " ", "0.4", "\n",
      "Left Eye", " ", "VCDR", " ", "-", " ", "0.6", "\n",
      "No Referable Glaucoma", " ", "-", " ", "routine follow up", "\n", "Other text">>
PageGlaucomaOne ==
    <<GlaucomaTitle, "\n", "Screening Result", " ", "VCDR", "-", "0.6", " ", "left eye", "\n",
      "Referable Glacuoma", "-", "refer">>
PageGlaucomaDot == <<GlaucomaTitle, "\n", "Screening Result", "\n", "VCDR", "-", ".">>
\* A title and nothing of its report: no result label, no section header
PageDrNoLabel == <<DrTitle, "\n", "Image not gradable", "\n">>
PageGlaucomaBare == <<GlaucomaTitle, "\n", "Image not gradable", "\n">>

\* The files of document kind by their bytes: is_pdf (the file opens as a
\* document) and the recognized text of each page
Document(bytes) ==
    CASE bytes = 11 -> [is_pdf |-> TRUE,
                        pages |-> <<PageDrNoLabel, PageDrModerate, PageDrSevere>>]
      [] bytes = 12 -> [is_pdf |-> TRUE,
                        pages |-> <<PageGlaucomaBoth, PageDrSevere, PageGlaucomaOne>>]
      [] bytes = 14 -> [is_pdf |-> TRUE, pages |-> <<PageDrSevere, PageGlaucomaDot>>]
      [] bytes = 15 -> [is_pdf |-> TRUE, pages |-> <<PageGlaucomaBare>>]
      [] OTHER -> [is_pdf |-> FALSE, pages |-> <<>>]

\* \s
IsSpace(t) == t \in {" ", "\n"}

RECURSIVE LStrip(_)
LStrip(s) == IF s # <<>> /\ IsSpace(Head(s)) THEN LStrip(Tail(s)) ELSE s

RECURSIVE RStrip(_)
RStrip(s) == IF s # <<>> /\ IsSpace(s[Len(s)]) THEN RStrip(SubSeq(s, 1, Len(s) - 1)) ELSE s

\* s.strip()
Strip(s) == RStrip(LStrip(s))

\* The first position of s at or after k that holds no whitespace (Len(s) + 1: none)
SkipSpace(s, k) ==
    LET rest == {i \in k..Len(s) : ~IsSpace(s[i])}
    IN  IF rest = {} THEN Len(s) + 1 ELSE CHOOSE i \in rest : \A j \in rest : i <= j

\* The first position of s whose token, lowercased, is in the set (0: none)
FindToken(s, lowered) ==
    LET hits == {i \in 1..Len(s) : LowerTok(s[i]) \in lowered}
    IN  IF hits = {} THEN 0 ELSE CHOOSE i \in hits : \A j \in hits : i <= j

\* Mutant of DrMatch: the capture is not cut at the end of its first line
DrMatchAllLines(text) ==
    LET i == FindToken(text, {"result dr:"})
        group1 == LStrip(SubSeq(text, i + 1, Len(text)))
    IN  IF i = 0 THEN [matched |-> FALSE, result |-> <<>>]
        ELSE [matched |-> TRUE, result |-> Strip(group1)]

\* re.search(r"Result DR:\s*(.*)", text, IGNORECASE | DOTALL), then
\* match.group(1).strip().split('\n')[0]
DrMatch(text) ==
    LET i == FindToken(text, {"result dr:"})
        group1 == LStrip(SubSeq(text, i + 1, Len(text)))
    IN  IF i = 0 THEN [matched |-> FALSE, result |-> <<>>]
        ELSE [matched |-> TRUE, result |-> Split(Strip(group1), "\n")[1]]

\* Mutant of extract_dr_data: no look for an existing report
extract_dr_data_unchecked(text, d, s, encounter_file) ==
    LET match == DrMatch(text)
    IN  IF match.matched
        THEN session_add(s, [table |-> "diabetic_retinopathy_reports",
                             patient_encounter_id |-> encounter_file.patient_encounter_id,
                             result |-> match.result])
        ELSE s

\* extract_dr_data(text, session, encounter_file): the session afterwards
extract_dr_data(text, d, s, encounter_file) ==
    LET match == DrMatch(text)
        reports == QueryView(d, s).diabetic_retinopathy_reports
        existing_report ==
            \E i \in 1..Len(reports) :
                reports[i].patient_encounter_id = encounter_file.patient_encounter_id
    IN  IF match.matched /\ ~existing_report
        THEN session_add(s, [table |-> "diabetic_retinopathy_reports",
                             patient_encounter_id |-> encounter_file.patient_encounter_id,
                             result |-> match.result])
        ELSE s

\* [0-9.]+
NumberToks == {"0.4", "0.6", "."}

\* float(): tenths, <<>> for None; "." is no number (ValueError)
IsFloat(t) == t # "."
Float(t) == CASE t = "0.4" -> <<4>> [] t = "0.6" -> <<6>> [] OTHER -> <<>>

\* r"VCDR\s*-\s*([0-9.]+)" matched at position k: the position of the value (0: no match)
VcdrAt(s, k) ==
    LET dash == SkipSpace(s, k + 1)
        val == SkipSpace(s, dash + 1)
    IN  IF /\ LowerTok(s[k]) = "vcdr"
           /\ dash <= Len(s) /\ s[dash] = "-"
           /\ val <= Len(s) /\ s[val] \in NumberToks
        THEN val ELSE 0

RECURSIVE FindAllVcdr(_, _)
\* re.findall(r"VCDR\s*-\s*([0-9.]+)", section_text, IGNORECASE)
FindAllVcdr(s, k) ==
    IF k > Len(s) THEN <<>>
    ELSE IF VcdrAt(s, k) # 0 THEN <<s[VcdrAt(s, k)]>> \o FindAllVcdr(s, VcdrAt(s, k) + 1)
    ELSE FindAllVcdr(s, k + 1)

Categories == {"no referable glaucoma", "referable glaucoma", "referable glacuoma"}

\* r"(No Referable Glaucoma|Referable Glaucoma|Referable Glacuoma)\s*-\s*(.*)"
\* matched at position k: the last position of the match (0: no match); the
\* remainder ends with its line
CategoryAt(s, k) ==
    LET dash == SkipSpace(s, k + 1)
        rest == SkipSpace(s, dash + 1)
        eols == {i \in rest..Len(s) : s[i] = "\n"}
    IN  IF /\ LowerTok(s[k]) \in Categories
           /\ dash <= Len(s) /\ s[dash] = "-"
        THEN IF eols = {} THEN Len(s)
             ELSE (CHOOSE i \in eols : \A j \in eols : i <= j) - 1
        ELSE 0

\* re.search of the category pattern, then result_match.group(0).strip()
CategoryMatch(s) ==
    LET hits == {k \in 1..Len(s) : CategoryAt(s, k) # 0}
        k == CHOOSE i \in hits : \A j \in hits : i <= j
    IN  IF hits = {} THEN [matched |-> FALSE, result |-> <<>>]
        ELSE [matched |-> TRUE, result |-> Strip(SubSeq(s, k, CategoryAt(s, k)))]

\* Lines 48-72 of extract_glaucoma_data: the fields found in the text, and
\* whether float() raised
GlaucomaFields(text) ==
    LET i == FindToken(text, {"screening result"})
        section_text == LStrip(SubSeq(text, i + 1, Len(text)))
        vcdr_values == FindAllVcdr(section_text, 1)
        left_eye == \E j \in 1..Len(section_text) : LowerTok(section_text[j]) = "left eye"
        result_match == CategoryMatch(section_text)
        used == IF Len(vcdr_values) >= 2 THEN SubSeq(vcdr_values, 1, 2) ELSE vcdr_values
    IN  IF i = 0
        THEN [raised |-> FALSE, vcdr_right |-> <<>>, vcdr_left |-> <<>>, result |-> <<"N/A">>]
        ELSE [raised |-> \E j \in 1..Len(used) : ~IsFloat(used[j]),
              vcdr_right |-> IF Len(vcdr_values) >= 2 THEN Float(vcdr_values[1])
                             ELSE IF Len(vcdr_values) = 1 /\ ~left_eye
                             THEN Float(vcdr_values[1]) ELSE <<>>,
              vcdr_left |-> IF Len(vcdr_values) >= 2 THEN Float(vcdr_values[2])
                            ELSE IF Len(vcdr_values) = 1 /\ left_eye
                            THEN Float(vcdr_values[1]) ELSE <<>>,
              result |-> IF result_match.matched THEN result_match.result ELSE <<"N/A">>]

\* extract_glaucoma_data(text, session, encounter_file): the session afterwards,
\* and whether it raised
extract_glaucoma_data(text, d, s, encounter_file) ==
    LET f == GlaucomaFields(text)
        reports == QueryView(d, s).glaucoma_reports
        existing_report ==
            \E i \in 1..Len(reports) :
                reports[i].patient_encounter_id = encounter_file.patient_encounter_id
    IN  IF f.raised THEN [raised |-> TRUE, session |-> s]
        ELSE IF existing_report THEN [raised |-> FALSE, session |-> s]
        ELSE [raised |-> FALSE,
              session |-> session_add(s, [table |-> "glaucoma_reports",
                              patient_encounter_id |-> encounter_file.patient_encounter_id,
                              vcdr_right |-> f.vcdr_right, vcdr_left |-> f.vcdr_left,
                              result |-> f.result])]

\* Lines 128-132 of process_pdf_files: the rule sets whose title is in the text
ExtractPage(text, d, s, encounter_file) ==
    LET has(title) == \E i \in 1..Len(text) : text[i] = title
        s1 == IF has(DrTitle) THEN extract_dr_data(text, d, s, encounter_file) ELSE s
    IN  IF has(GlaucomaTitle) THEN extract_glaucoma_data(text, d, s1, encounter_file)
        ELSE [raised |-> FALSE, session |-> s1]

-----------------------------------------------------------------------------
(* ocr.py: process_pdf_files and main *)

\* main() and the query of process_pdf_files: every File Record of kind pdf
StartOcr ==
    /\ pc = "idle"
    /\ ops < MaxOps
    /\ ops' = ops + 1
    /\ pc' = "ocr"
    /\ session' = EmptySession
    /\ LET rows == QueryView(db, EmptySession).encounter_files
           found == {rows[i] : i \in {j \in 1..Len(rows) : rows[j].file_type = "pdf"}}
       IN  \E order \in Orders(found) : all_pdfs' = order
    /\ doc' = NoDoc
    /\ ocr_log' = <<>>
    /\ UNCHANGED <<uploaded, processed, errored, images, pdfs, db, zip_files, log>>

\* Mutant of OcrFailed: the handler does not roll back
OcrFailedNoRollback(encounter_file, e) ==
    /\ session' = session
    /\ ocr_log' = Append(ocr_log, [filename |-> encounter_file.filename,
                                   patient_encounter_id |-> encounter_file.patient_encounter_id,
                                   outcome |-> "error", error |-> e,
                                   pending |-> Len(session.new)])
    /\ doc' = NoDoc

\* except Exception as e: the line printed and session.rollback()
OcrFailed(encounter_file, e) ==
    /\ session' = session_rollback(session)
    /\ ocr_log' = Append(ocr_log, [filename |-> encounter_file.filename,
                                   patient_encounter_id |-> encounter_file.patient_encounter_id,
                                   outcome |-> "error", error |-> e,
                                   pending |-> Len(session.new)])
    /\ doc' = NoDoc

\* The next document of the loop: skipped when its file is missing, an
\* exception when fitz.open fails, else opened
OcrOpen ==
    /\ pc = "ocr"
    /\ ~doc.open
    /\ all_pdfs # <<>>
    /\ all_pdfs' = Tail(all_pdfs)
    /\ LET encounter_file == Head(all_pdfs)
           on_disk == {f \in pdfs : f[1] = encounter_file.filename}
           bytes == (CHOOSE f \in on_disk : TRUE)[2]
       IN  IF on_disk = {}
           THEN /\ ocr_log' = Append(ocr_log, [filename |-> encounter_file.filename,
                                   patient_encounter_id |-> encounter_file.patient_encounter_id,
                                   outcome |-> "missing", error |-> "", pending |-> 0])
                /\ UNCHANGED <<doc, session>>
           ELSE IF ~Document(bytes).is_pdf THEN OcrFailed(encounter_file, "FileDataError")
           ELSE /\ doc' = [open |-> TRUE, encounter_file |-> encounter_file,
                           pages |-> Document(bytes).pages, page_num |-> 1]
                /\ UNCHANGED <<session, ocr_log>>
    /\ UNCHANGED <<uploaded, processed, errored, images, pdfs, db, pc, zip_files, log, ops>>

\* One page of the open document: rendered and recognized (either may fail),
\* then handed to the rule sets
OcrPage(recognized) ==
    /\ pc = "ocr"
    /\ doc.open
    /\ doc.page_num <= Len(doc.pages)
    /\ LET r == ExtractPage(doc.pages[doc.page_num], db, session, doc.encounter_file)
       IN  IF ~recognized THEN OcrFailed(doc.encounter_file, "TesseractError")
           ELSE IF r.raised THEN OcrFailed(doc.encounter_file, "ValueError")
           ELSE /\ session' = r.session
                /\ doc' = [doc EXCEPT !.page_num = @ + 1]
                /\ UNCHANGED ocr_log
    /\ UNCHANGED <<uploaded, processed, errored, images, pdfs, db, pc, zip_files,
                   all_pdfs, log, ops>>

\* session.commit() after the last page of the document
OcrCommit ==
    /\ pc = "ocr"
    /\ doc.open
    /\ doc.page_num > Len(doc.pages)
    /\ LET done == session_commit(db, session)
       IN  IF done.raised THEN /\ OcrFailed(doc.encounter_file, "IntegrityError")
                               /\ UNCHANGED db
           ELSE /\ db' = done.db
                /\ session' = done.session
                /\ ocr_log' = Append(ocr_log,
                                  [filename |-> doc.encounter_file.filename,
                                   patient_encounter_id |-> doc.encounter_file.patient_encounter_id,
                                   outcome |-> "finished", error |-> "",
                                   pending |-> Len(session.new)])
                /\ doc' = NoDoc
    /\ UNCHANGED <<uploaded, processed, errored, images, pdfs, pc, zip_files,
                   all_pdfs, log, ops>>

\* main(): session.close() after process_pdf_files returned
FinishOcr ==
    /\ pc = "ocr"
    /\ ~doc.open
    /\ all_pdfs = <<>>
    /\ pc' = "idle"
    /\ session' = EmptySession
    /\ UNCHANGED <<uploaded, processed, errored, images, pdfs, db, zip_files,
                   all_pdfs, doc, log, ocr_log, ops>>

Init ==
    /\ uploaded = [z \in ZipNames |-> 0]
    /\ processed = [z \in ZipNames |-> 0]
    /\ errored = [z \in ZipNames |-> 0]
    /\ images = {}
    /\ pdfs = {}
    /\ db = EmptyDb
    /\ session = EmptySession
    /\ pc = "idle"
    /\ zip_files = <<>>
    /\ all_pdfs = <<>>
    /\ doc = NoDoc
    /\ log = <<>>
    /\ ocr_log = <<>>
    /\ ops = 0

Next ==
    \/ \E z \in ZipNames, c \in Contents : Upload(z, c)
    \/ StartMain
    \/ ProcessNext
    \/ FinishMain
    \/ Reinitialize
    \/ StartOcr
    \/ OcrOpen
    \/ \E recognized \in BOOLEAN : OcrPage(recognized)
    \/ OcrCommit
    \/ FinishOcr

Spec == Init /\ [][Next]_vars

\* The loop of main.py and of process_pdf_files runs on once started
FairSpec ==
    /\ Spec
    /\ WF_vars(ProcessNext)
    /\ WF_vars(FinishMain)
    /\ WF_vars(OcrOpen)
    /\ WF_vars(\E recognized \in BOOLEAN : OcrPage(recognized))
    /\ WF_vars(OcrCommit)
    /\ WF_vars(FinishOcr)

-----------------------------------------------------------------------------
(* Reading the store and the console output *)

\* The Archive Records with a fingerprint
ZipRows(d, md5_hash) ==
    {i \in 1..Len(d.zip_files) : d.zip_files[i].md5_hash = md5_hash}

\* The Encounter Records owned by an Archive Record
EncountersOf(d, zid) ==
    {i \in 1..Len(d.patient_encounters) : d.patient_encounters[i].zip_file_id = zid}

\* The File Records of an encounter, in the order of their ids
FilesOf(d, eid) ==
    SelectSeq(d.encounter_files, LAMBDA f : f.patient_encounter_id = eid)

\* The Diagnostic and Measurement Findings of an encounter
DrOf(d, eid) ==
    SelectSeq(d.diabetic_retinopathy_reports, LAMBDA r : r.patient_encounter_id = eid)
GlaucomaOf(d, eid) ==
    SelectSeq(d.glaucoma_reports, LAMBDA r : r.patient_encounter_id = eid)

\* A step of the loop of main: process_zip_file is called for Head(zip_files)
IsProcessStep == pc = "main" /\ zip_files # <<>> /\ zip_files' # zip_files

\* What (filename, kind) pairs a sequence of records or printed lines holds
Pairs(seq, field) == [i \in 1..Len(seq) |-> <<seq[i][field], seq[i].file_type>>]

\* d2 is d1 with rows appended to each table
Extends(d1, d2) ==
    /\ \A t \in DOMAIN d1 : Len(d1[t]) <= Len(d2[t]) /\ SubSeq(d2[t], 1, Len(d1[t])) = d1[t]

-----------------------------------------------------------------------------
(* The claims *)

\* C1: an archive whose content already has an Archive Record is skipped when
\* it is processed again, under any filename and in any run, and the store is
\* left as it was; the store never holds two Archive Records of one content,
\* and every Archive Record owns exactly one Encounter Record.
C1_Idempotent ==
    /\ [](\A c \in Contents :
            /\ Cardinality(ZipRows(db, calculate_md5(c))) <= 1
            /\ \A i \in ZipRows(db, calculate_md5(c)) :
                   Cardinality(EncountersOf(db, db.zip_files[i].id)) = 1)
    /\ [][(IsProcessStep /\ ZipRows(db, calculate_md5(uploaded[Head(zip_files)])) # {})
            => /\ log'[Len(log')].outcome = "skipped"
               /\ db' = db]_vars

\* C1 witness: an archive was skipped whose content is recorded under another filename
C1_Witness ==
    \E i \in 1..Len(log) :
        /\ log[i].outcome = "skipped"
        /\ \E j \in ZipRows(db, calculate_md5(log[i].content)) :
               db.zip_files[j].zip_filename # log[i].zip

\* C2 (as claimed): an archive none of whose directory segments has, on its
\* own, 3 underscore-delimited parts fails with the no-qualifying-directory
\* condition, gets no records and is never moved to the processed area.
C2_NoQualifyingDirectoryFails ==
    LET NoQualifyingSegment(c) ==
            /\ Archives[c].is_zip
            /\ \A d \in all_dirs(Archives[c].members) :
                   \A k \in 1..Len(d) : Len(Split(d[k], "_")) < 3
    IN
    \A c \in Contents : NoQualifyingSegment(c) =>
        /\ ZipRows(db, calculate_md5(c)) = {}
        /\ \A z \in ZipNames : processed[z] # c
        /\ \A i \in 1..Len(log) : log[i].content = c =>
               log[i].outcome = "error" /\ log[i].error = "ValueError"

\* C3 (as claimed): the final segment of an accepted directory has at least 3
\* parts; date is the last, id the one before, name the leading parts joined
\* with spaces, never empty.
C3_DirectoryDecomposed ==
    \A i \in 1..Len(log) : log[i].dir_in_zip # <<>> =>
        LET parts == Split(log[i].dir_in_zip[Len(log[i].dir_in_zip)], "_")
            n == Len(parts)
        IN  /\ n >= 3
            /\ log[i].capture_date = parts[n]
            /\ log[i].patient_id = parts[n - 1]
            /\ log[i].name = Join(SubSeq(parts, 1, n - 2), " ")
            /\ log[i].name # <<>>

\* C4 (as claimed): every call of process_zip_file ends in exactly one of skipped (the
\* archive stays where it was), relocated-processed and relocated-error; an
\* archive is moved to the processed area only with its Archive Record
\* committed, and to the error area only with the store unchanged and no
\* Archive Record of its fingerprint in it.
C4_TerminalStates ==
    [][IsProcessStep =>
        LET z == Head(zip_files)
            c == uploaded[z]
            out == log'[Len(log')].outcome
            stays == uploaded'[z] = c /\ processed' = processed /\ errored' = errored
            toProcessed == /\ uploaded'[z] = 0 /\ processed'[z] = c /\ errored' = errored
                           /\ \A y \in ZipNames \ {z} : processed'[y] = processed[y]
            toError == /\ uploaded'[z] = 0 /\ errored'[z] = c /\ processed' = processed
                       /\ \A y \in ZipNames \ {z} : errored'[y] = errored[y]
        IN  /\ Len(log') = Len(log) + 1
            /\ out \in {"skipped", "processed", "error"}
            /\ out = "skipped" <=> stays
            /\ out = "processed" <=> toProcessed
            /\ out = "error" <=> toError
            /\ toProcessed => \E i \in ZipRows(db', calculate_md5(c)) :
                                  db'.zip_files[i].zip_filename = z
            /\ toError => db' = db /\ ZipRows(db', calculate_md5(c)) = {}]_vars

\* Every Encounter Record has its Archive Record, every Archive Record its one
\* Encounter Record, every File Record its Encounter Record
Owned(d) ==
    /\ \A i \in 1..Len(d.zip_files) :
           Cardinality(EncountersOf(d, d.zip_files[i].id)) = 1
    /\ \A i \in 1..Len(d.patient_encounters) :
           \E j \in 1..Len(d.zip_files) :
               d.zip_files[j].id = d.patient_encounters[i].zip_file_id
    /\ \A i \in 1..Len(d.encounter_files) :
           \E j \in 1..Len(d.patient_encounters) :
               d.patient_encounters[j].id = d.encounter_files[i].patient_encounter_id

\* C5: a call of process_zip_file, whether it returns or raises, either adds
\* to the store one Archive Record, its one Encounter Record and every File
\* Record built for the archive, or
\* leaves the store exactly as it was; in no state is there an Encounter
\* Record without its Archive Record or a File Record without its Encounter
\* Record.
C5_AllOrNothing ==
    /\ []Owned(db)
    /\ [][IsProcessStep =>
            LET e == log'[Len(log')]
                nz == Len(db.zip_files) + 1
                ne == Len(db.patient_encounters) + 1
            IN  IF Len(log') > Len(log) /\ e.outcome = "processed"
                THEN /\ Extends(db, db')
                     /\ Len(db'.zip_files) = nz
                     /\ Len(db'.patient_encounters) = ne
                     /\ db'.zip_files[nz].md5_hash = calculate_md5(e.content)
                     /\ db'.patient_encounters[ne].zip_file_id = db'.zip_files[nz].id
                     /\ Len(db'.encounter_files) = Len(db.encounter_files) + Len(e.extracted)
                     /\ Pairs(FilesOf(db', db'.patient_encounters[ne].id), "filename")
                            = Pairs(e.extracted, "new_filename")
                ELSE db' = db]_vars

\* C5 witness: an archive with several files was committed after an archive
\* that failed once its files were written
C5_Witness ==
    \E i, j \in 1..Len(log) :
        /\ log[i].outcome = "error" /\ log[i].extracted # <<>>
        /\ log[j].outcome = "processed" /\ Len(log[j].extracted) >= 2
        /\ Len(db.encounter_files) >= 2

\* C6 (as claimed): every archive listed by main is handed to process_zip_file and gets its
\* outcome whatever happened to the archives before it, the run ends, and
\* between two archives the session holds no pending record.
C6_NoFailureIsFatal ==
    /\ \A z \in ZipNames :
           (pc = "main" /\ \E k \in 1..Len(zip_files) : zip_files[k] = z)
               ~> (pc = "main" /\ \E i \in 1..Len(log) :
                       log[i].zip = z /\ log[i].outcome \in {"skipped", "processed", "error"})
    /\ (pc = "main") ~> (pc = "idle")
    /\ [](pc = "main" => session.new = <<>>)
    /\ [][IsProcessStep => pc' = "main"]_vars

ImageExts == {<<".", "jpg">>, <<".", "jpeg">>, <<".", "png">>, <<".", "gif">>, <<".", "bmp">>}
DocumentExts == {<<".", "pdf">>}

\* The lowercased extension of a filename
ExtOf(filename) == Lower(PathSuffix(<<filename>>))

\* C7: a member inside the qualifying directory with another extension than
\* jpg, jpeg, png, gif, bmp, pdf gives no file and no File Record and no
\* failure; a member with one of them gives exactly one File Record, image or
\* document by its extension, and the File Records are in member order.
C7_ExtensionsClassified ==
    /\ \A f \in images : ExtOf(f[1]) \in ImageExts
    /\ \A f \in pdfs : ExtOf(f[1]) \in DocumentExts
    /\ \A i \in 1..Len(db.encounter_files) :
           LET f == db.encounter_files[i]
           IN  \/ f.file_type = "image" /\ ExtOf(f.filename) \in ImageExts
               \/ f.file_type = "pdf" /\ ExtOf(f.filename) \in DocumentExts
    /\ \A i \in 1..Len(log) :
           LET e == log[i]
               members == Archives[e.content].members
               inside(k) ==
                   LET path == PathParts(members[k].filename)
                   IN  /\ ~is_dir(members[k])
                       /\ e.dir_in_zip # <<>>
                       /\ Len(path) > Len(e.dir_in_zip)
                       /\ SubSeq(path, 1, Len(e.dir_in_zip)) = e.dir_in_zip
               lines(k) == {j \in 1..Len(e.extracted) : e.extracted[j].member = k}
           IN  /\ \A k \in 1..Len(members) : inside(k) =>
                      LET ext == ExtOf(PathName(PathParts(members[k].filename)))
                      IN  IF ext \in ImageExts \cup DocumentExts
                          THEN e.outcome = "processed" =>
                                  /\ Cardinality(lines(k)) = 1
                                  /\ \A j \in lines(k) : e.extracted[j].file_type =
                                         (IF ext \in ImageExts THEN "image" ELSE "pdf")
                          ELSE lines(k) = {}
               /\ \A j1, j2 \in 1..Len(e.extracted) :
                      j1 < j2 => e.extracted[j1].member < e.extracted[j2].member
               /\ (/\ e.outcome = "error"
                   /\ Archives[e.content].is_zip
                   /\ e.dir_in_zip # <<>>
                   /\ \A k \in 1..Len(members) : members[k].crc_ok)
                      => e.error = "IntegrityError"
               /\ e.outcome = "processed" =>
                      \A z \in ZipRows(db, calculate_md5(e.content)) :
                          \A n \in EncountersOf(db, db.zip_files[z].id) :
                              Pairs(FilesOf(db, db.patient_encounters[n].id), "filename")
                                  = Pairs(e.extracted, "new_filename")

\* C7 witness: an archive with a text file among images and documents was
\* committed
C7_Witness ==
    \E i \in 1..Len(log) :
        /\ log[i].outcome = "processed"
        /\ ZipRows(db, calculate_md5(log[i].content)) # {}
        /\ \E k \in 1..Len(Archives[log[i].content].members) :
               ExtOf(PathName(PathParts(Archives[log[i].content].members[k].filename)))
                   = <<".", "txt">>
        /\ \E j1, j2 \in 1..Len(log[i].extracted) :
               log[i].extracted[j1].file_type = "image" /\ log[i].extracted[j2].file_type = "pdf"

\* C8: the name an extracted member is stored under is the id, the name with
\* its spaces turned to underscores, the date and the member's basename,
\* joined by underscores; "scan.jpg" of "Jane Doe_12345_20240101" is stored as
\* "12345_Jane_Doe_20240101_scan.jpg".
C8_DestinationFilename ==
    \A i \in 1..Len(log) :
        LET e == log[i]
            members == Archives[e.content].members
        IN  \A j \in 1..Len(e.extracted) :
                LET x == e.extracted[j]
                    basename == PathName(PathParts(members[x.member].filename))
                    area == IF x.file_type = "image" THEN images ELSE pdfs
                IN  /\ x.new_filename =
                           e.patient_id \o <<"_">>
                           \o [n \in 1..Len(e.name) |-> IF e.name[n] = " " THEN "_" ELSE e.name[n]]
                           \o <<"_">> \o e.capture_date \o <<"_">> \o basename
                    /\ \E f \in area : f[1] = x.new_filename
                    /\ (e.patient_id = <<"12345">> /\ e.name = <<"Jane", " ", "Doe">>
                        /\ e.capture_date = <<"20240101">> /\ basename = <<"scan", ".", "jpg">>)
                       => x.new_filename = <<"12345", "_", "Jane", "_", "Doe", "_",
                                             "20240101", "_", "scan", ".", "jpg">>

\* C8 witness: "scan.jpg" of "Jane Doe_12345_20240101" was extracted
C8_Witness ==
    \E i \in 1..Len(log) : \E j \in 1..Len(log[i].extracted) :
        /\ log[i].name = <<"Jane", " ", "Doe">>
        /\ PathName(PathParts(Archives[log[i].content].members[log[i].extracted[j].member].filename))
               = <<"scan", ".", "jpg">>

\* The encounters of the store
EncounterIds == {db.patient_encounters[i].id : i \in 1..Len(db.patient_encounters)}

\* C9: in an OCR run no Diagnostic Finding is added, to the session or to
\* the store, for an encounter that has a stored Diagnostic Finding, and the
\* stored finding stays as it is.
C9_NoSecondDiagnosticFinding ==
    /\ [](\A k \in 1..Len(session.new) :
             session.new[k].table = "diabetic_retinopathy_reports"
                 => DrOf(db, session.new[k].patient_encounter_id) = <<>>)
    /\ [][pc = "ocr" =>
            \A n \in EncounterIds : DrOf(db, n) # <<>> => DrOf(db', n) = DrOf(db, n)]_vars

\* C9 witness: a page with a diagnostic result was read for an encounter that
\* has a stored Diagnostic Finding with another result
C9_Witness ==
    /\ pc = "ocr" /\ doc.open /\ doc.page_num > 1
    /\ LET text == doc.pages[doc.page_num - 1]
           stored == DrOf(db, doc.encounter_file.patient_encounter_id)
       IN  /\ \E i \in 1..Len(text) : text[i] = DrTitle
           /\ DrMatch(text).matched
           /\ stored # <<>>
           /\ stored[1].result # DrMatch(text).result

\* The File Records of document kind
PdfRows(d) == SelectSeq(d.encounter_files, LAMBDA f : f.file_type = "pdf")

\* C10: when a document fails, nothing is added to the store, no finding of
\* it stays in the session, and the documents after it stay queued in a run
\* that goes on to its end; the store changes only by the one commit after
\* the last page of a document, which stores exactly the findings pending
\* for it; every document of the batch gets its turn.
C10_DocumentFailureIsolated ==
    /\ [][pc = "ocr" =>
            LET last == ocr_log'[Len(ocr_log')]
                failed == Len(ocr_log') = Len(ocr_log) + 1 /\ last.outcome = "error"
            IN  /\ failed => /\ db' = db
                             /\ session'.new = <<>>
                             /\ ~doc'.open
                             /\ pc' = "ocr"
                             /\ all_pdfs' = IF doc.open THEN all_pdfs ELSE Tail(all_pdfs)
                /\ db' # db =>
                       /\ doc.open /\ doc.page_num > Len(doc.pages)
                       /\ Len(ocr_log') = Len(ocr_log) + 1 /\ last.outcome = "finished"
                       /\ Extends(db, db')
                       /\ Len(db'.diabetic_retinopathy_reports) + Len(db'.glaucoma_reports)
                              = Len(db.diabetic_retinopathy_reports)
                                + Len(db.glaucoma_reports) + Len(session.new)
                       /\ \A k \in 1..Len(session.new) :
                              session.new[k].patient_encounter_id
                                  = doc.encounter_file.patient_encounter_id
                       /\ session'.new = <<>>]_vars
    /\ [](pc = "ocr" => Len(ocr_log) + Len(all_pdfs) + (IF doc.open THEN 1 ELSE 0)
                            = Len(PdfRows(db)))
    /\ (pc = "ocr") ~> (pc = "idle" /\ Len(ocr_log) = Len(PdfRows(db)))

\* C10 witness: a document failed with a finding pending, after a document
\* whose findings were committed and before another that was committed
C10_Witness ==
    \E i, j, k \in 1..Len(ocr_log) :
        /\ i < j /\ j < k
        /\ ocr_log[i].outcome = "finished" /\ ocr_log[i].pending > 0
        /\ ocr_log[j].outcome = "error" /\ ocr_log[j].pending > 0
        /\ ocr_log[k].outcome = "finished" /\ ocr_log[k].pending > 0
        /\ Len(db.diabetic_retinopathy_reports) + Len(db.glaucoma_reports)
               = ocr_log[i].pending + ocr_log[k].pending

\* A step of the page loop of process_pdf_files: the page doc.pages[doc.page_num]
\* is rendered, recognized and handed to the rule sets
IsPageStep == pc = "ocr" /\ doc.open /\ doc.page_num <= Len(doc.pages) /\ doc' # doc

\* The step failed before the rule sets saw the text
NotRecognized ==
    /\ Len(ocr_log') = Len(ocr_log) + 1
    /\ ocr_log'[Len(ocr_log')].error = "TesseractError"

\* if "..." in text
HasTitle(text, title) == \E i \in 1..Len(text) : text[i] = title

\* C11 (as claimed): for every recognized page with the measurement title the
\* rule yields its two values: with two or more label+value matches after the
\* "SCREENING RESULT" header right is the first and left the second; with one
\* match it is left when the section holds "left eye" and right otherwise; with
\* no match or no header both are unset.  A finding added for the page carries
\* these values.
C11_MeasurementRule ==
    [][(IsPageStep /\ HasTitle(doc.pages[doc.page_num], GlaucomaTitle) /\ ~NotRecognized) =>
        LET text == doc.pages[doc.page_num]
            eid == doc.encounter_file.patient_encounter_id
            i == FindToken(text, {"screening result"})
            section == IF i = 0 THEN <<>> ELSE SubSeq(text, i + 1, Len(text))
            m == FindAllVcdr(section, 1)
            left_eye == \E j \in 1..Len(section) : LowerTok(section[j]) = "left eye"
            right == IF Len(m) >= 2 \/ (Len(m) = 1 /\ ~left_eye) THEN Float(m[1]) ELSE <<>>
            left == IF Len(m) >= 2 THEN Float(m[2])
                    ELSE IF Len(m) = 1 /\ left_eye THEN Float(m[1]) ELSE <<>>
            had == GlaucomaOf(QueryView(db, session), eid) # <<>>
            f == session'.new[Len(session'.new)]
        IN  /\ doc'.open
            /\ ~had => /\ Len(session'.new) > 0
                       /\ f.table = "glaucoma_reports"
                       /\ f.patient_encounter_id = eid
                       /\ f.vcdr_right = right
                       /\ f.vcdr_left = left]_vars

\* C12: on a recognized page with the diagnostic title, a Diagnostic Finding
\* is added only when the text holds the label "Result DR:" (in any case) and
\* the encounter has no finding yet, and its result is the first line of what
\* follows the label once the whitespace and newlines right after the label
\* are dropped, nothing of later lines; without the label none is added.
C12_DiagnosticRule ==
    [][(IsPageStep /\ HasTitle(doc.pages[doc.page_num], DrTitle) /\ doc'.open) =>
        LET text == doc.pages[doc.page_num]
            eid == doc.encounter_file.patient_encounter_id
            labels == {k \in 1..Len(text) : LowerTok(text[k]) = "result dr:"}
            label == CHOOSE k \in labels : \A j \in labels : k <= j
            from == SkipSpace(text, label + 1)
            eols == {k \in from..Len(text) : text[k] = "\n"}
            to == IF eols = {} THEN Len(text)
                  ELSE (CHOOSE k \in eols : \A j \in eols : k <= j) - 1
            had == DrOf(QueryView(db, session), eid) # <<>>
            added == SelectSeq(SubSeq(session'.new, Len(session.new) + 1, Len(session'.new)),
                               LAMBDA o : o.table = "diabetic_retinopathy_reports")
        IN  IF labels = {} \/ had THEN added = <<>>
            ELSE added = <<[table |-> "diabetic_retinopathy_reports",
                            patient_encounter_id |-> eid,
                            result |-> SubSeq(text, from, to)]>>]_vars

\* C12 witness: the example page gave "Moderate NPDR", and a page with the
\* title and no label gave nothing
C12_Witness ==
    /\ pc = "ocr" /\ doc.open /\ doc.page_num = 3
    /\ doc.pages[1] = <<DrTitle, "\n", "Image not gradable", "\n">>
    /\ doc.pages[2] = <<DrTitle, "\n", "Result DR:", "\n", "Moderate NPDR", "\n", "Other text">>
    /\ \E k \in 1..Len(session.new) :
           /\ session.new[k].table = "diabetic_retinopathy_reports"
           /\ session.new[k].result = <<"Moderate NPDR">>
    /\ \A k \in 1..Len(session.new) :
           session.new[k].table = "diabetic_retinopathy_reports" => k = Len(session.new)

-----------------------------------------------------------------------------
(* The directory accepted among several *)

\* The candidate directory paths of an archive: every prefix of every
\* directory that holds a member
Candidates(members) ==
    UNION {{SubSeq(d, 1, i) : i \in 1..Len(d)} : d \in all_dirs(members)}

\* The test a candidate has to pass
Qualifies(test_path) == Len(Split(Join(test_path, "/"), "_")) >= 3

\* C13: the directory accepted for an archive has the least depth of all its
\* qualifying candidates, whatever the order in which the archive's
\* directories are enumerated.
C13_ShallowestFirst ==
    \A i \in 1..Len(log) :
        log[i].dir_in_zip # <<>> =>
            \A q \in Candidates(Archives[log[i].content].members) :
                Qualifies(q) => Len(log[i].dir_in_zip) <= Len(q)

-----------------------------------------------------------------------------
(* One finding of each kind per encounter *)

\* How many findings of one table an encounter has, stored and pending
Findings(table, eid) ==
    Cardinality({i \in 1..Len(db[table]) : db[table][i].patient_encounter_id = eid})
        + Cardinality({k \in 1..Len(session.new) :
                           /\ session.new[k].table = table
                           /\ session.new[k].patient_encounter_id = eid})

\* C14: an encounter never has more than one Diagnostic Finding nor more than
\* one Measurement Finding, stored and pending taken together, also when
\* several pages of a document carry the same title and when several
\* documents of the encounter are read in one run.
C14_AtMostOneFinding ==
    \A eid \in EncounterIds :
        /\ Findings("diabetic_retinopathy_reports", eid) <= 1
        /\ Findings("glaucoma_reports", eid) <= 1

\* Two documents of one encounter, with five titled pages between them, have
\* been read in the first run, and the encounter has one finding of each kind
C14_Witness ==
    /\ pc = "ocr"
    /\ \E i, j \in 1..Len(ocr_log) :
           /\ i < j
           /\ ocr_log[i].outcome = "finished" /\ ocr_log[j].outcome = "finished"
           /\ ocr_log[i].patient_encounter_id = ocr_log[j].patient_encounter_id
           /\ ocr_log[i].pending + ocr_log[j].pending = 2
           /\ Len(DrOf(db, ocr_log[i].patient_encounter_id)) = 1
           /\ Len(GlaucomaOf(db, ocr_log[i].patient_encounter_id)) = 1
    /\ \A i, j \in 1..Len(ocr_log) : ocr_log[i].filename = ocr_log[j].filename => i = j

-----------------------------------------------------------------------------
(* Where the extracted members lie *)

\* C15: every member extracted from an archive lies inside the directory
\* accepted for it: the directory is a proper ancestor of the member's path.
C15_OnlyInsideDirectory ==
    \A i \in 1..Len(log) :
        \A k \in 1..Len(log[i].extracted) :
            LET member_info == Archives[log[i].content].members[log[i].extracted[k].member]
                parts == PathParts(member_info.filename)
                dir_in_zip == log[i].dir_in_zip
            IN  /\ Len(dir_in_zip) < Len(parts)
                /\ SubSeq(parts, 1, Len(dir_in_zip)) = dir_in_zip

-----------------------------------------------------------------------------
(* What a skipped archive leaves behind *)

\* C16: process_zip_file, called for an archive whose fingerprint is
\* recorded, changes neither the store nor the extraction areas nor the
\* processed and error areas, and the archive stays in the uploaded-input
\* area.
C16_SkipChangesNothing ==
    [][(IsProcessStep /\ ZipRows(db, calculate_md5(uploaded[Head(zip_files)])) # {})
          => /\ UNCHANGED <<db, session, images, pdfs, processed, errored>>
             /\ uploaded' = uploaded
             /\ uploaded'[Head(zip_files)] # 0]_vars

\* An archive has been skipped and lies in the uploaded-input area still,
\* beside the files and the processed archive of the first time
C16_Witness ==
    /\ log # <<>>
    /\ log[Len(log)].outcome = "skipped"
    /\ uploaded[log[Len(log)].zip] = log[Len(log)].content
    /\ \E z \in ZipNames : processed[z] = log[Len(log)].content
    /\ images # {}

-----------------------------------------------------------------------------
(* The finding the measurement rule adds *)

\* C17 (as claimed): on every recognized page with the measurement title,
\* read for an encounter that has no Measurement Finding, exactly one is
\* added: its result is the first accepted category phrase of the section
\* with its remainder, and "N/A" when the section has none or the header is
\* missing, in which case both values are unset as well.  A stored finding is
\* left as it is by every later page, document and run.
C17_OneMeasurementFinding ==
    /\ [][(IsPageStep /\ HasTitle(doc.pages[doc.page_num], GlaucomaTitle) /\ ~NotRecognized
             /\ GlaucomaOf(QueryView(db, session),
                           doc.encounter_file.patient_encounter_id) = <<>>) =>
            LET text == doc.pages[doc.page_num]
                eid == doc.encounter_file.patient_encounter_id
                i == FindToken(text, {"screening result"})
                section == IF i = 0 THEN <<>> ELSE SubSeq(text, i + 1, Len(text))
                phrases == {k \in 1..Len(section) :
                               /\ LowerTok(section[k]) \in Categories
                               /\ SkipSpace(section, k + 1) <= Len(section)
                               /\ section[SkipSpace(section, k + 1)] = "-"}
                first == CHOOSE k \in phrases : \A j \in phrases : k <= j
                eols == {k \in first..Len(section) : section[k] = "\n"}
                last == IF eols = {} THEN Len(section)
                        ELSE (CHOOSE k \in eols : \A j \in eols : k <= j) - 1
                result == IF phrases = {} THEN <<"N/A">>
                          ELSE Strip(SubSeq(section, first, last))
                added == SelectSeq(SubSeq(session'.new, Len(session.new) + 1, Len(session'.new)),
                                   LAMBDA o : o.table = "glaucoma_reports")
            IN  /\ doc'.open
                /\ Len(added) = 1
                /\ added[1].patient_encounter_id = eid
                /\ added[1].result = result
                /\ i = 0 => added[1].vcdr_right = <<>> /\ added[1].vcdr_left = <<>>]_vars
    /\ [][(pc = "ocr" \/ pc' = "ocr") =>
            /\ Len(db'.glaucoma_reports) >= Len(db.glaucoma_reports)
            /\ \A k \in 1..Len(db.glaucoma_reports) :
                   db'.glaucoma_reports[k] = db.glaucoma_reports[k]]_vars

-----------------------------------------------------------------------------
(* File Records and the files written *)

\* The lines printed for the archives whose records the store holds: for each
\* content, the last time it was processed
Recorded ==
    {i \in 1..Len(log) :
        /\ log[i].outcome = "processed"
        /\ ZipRows(db, calculate_md5(log[i].content)) # {}
        /\ \A j \in (i + 1)..Len(log) :
               log[j].outcome = "processed" => log[j].content # log[i].content}

\* C18 (as claimed): for every File Record of the store, the file of its name
\* in the extraction area of its kind holds the bytes of the archive member
\* the record was made from.
C18_RecordsMatchFiles ==
    \A i \in Recorded :
        \A k \in 1..Len(log[i].extracted) :
            LET e == log[i].extracted[k]
                member_info == Archives[log[i].content].members[e.member]
            IN  <<e.new_filename, member_info.data>>
                    \in (IF e.file_type = "image" THEN images ELSE pdfs)

-----------------------------------------------------------------------------
(* An archive under the filename of a recorded one *)

\* The archive process_zip_file is called for has a content the store does not
\* hold and the filename of an Archive Record, and nothing fails before its
\* commit
NameTaken ==
    /\ IsProcessStep
    /\ ~OpenRaises(uploaded[Head(zip_files)])
    /\ ZipRows(db, calculate_md5(uploaded[Head(zip_files)])) = {}
    /\ \E i \in 1..Len(db.zip_files) : db.zip_files[i].zip_filename = Head(zip_files)
    /\ \A order \in DOMAIN Unpacked[uploaded[Head(zip_files)]] :
           Unpacked[uploaded[Head(zip_files)]][order].error = ""

\* C19: the commit of an archive that differs in content from every recorded
\* archive and has the filename of a recorded one fails: the store stays as it
\* was, nothing stays pending, the archive goes to the error area, and the
\* files it wrote are in the extraction areas beside those that were there.
C19_FilenameUnique ==
    [][NameTaken =>
        LET zip_name == Head(zip_files)
            e == log'[Len(log')]
        IN  /\ Len(log') = Len(log) + 1
            /\ e.outcome = "error" /\ e.error = "IntegrityError"
            /\ db' = db
            /\ session' = EmptySession
            /\ errored'[zip_name] = uploaded[zip_name]
            /\ uploaded'[zip_name] = 0
            /\ processed' = processed
            /\ \A k \in 1..Len(e.extracted) :
                   \E f \in (IF e.extracted[k].file_type = "image" THEN images' ELSE pdfs') :
                       f[1] = e.extracted[k].new_filename
            /\ \A f \in images : \E g \in images' : g[1] = f[1]
            /\ \A f \in pdfs : \E g \in pdfs' : g[1] = f[1]]_vars

\* The commit of an archive failed on the filename of an earlier one, whose
\* records are in the store; the archive lies in the error area and a file it
\* wrote in an extraction area
C19_Witness ==
    /\ log # <<>>
    /\ log[Len(log)].error = "IntegrityError"
    /\ ZipRows(db, calculate_md5(log[Len(log)].content)) = {}
    /\ \E i \in 1..Len(db.zip_files) : db.zip_files[i].zip_filename = log[Len(log)].zip
    /\ errored[log[Len(log)].zip] = log[Len(log)].content
    /\ \E f \in images \cup pdfs : f[1] = log[Len(log)].extracted[1].new_filename

====
